---- MODULE Spec2Model ----
\* HS71 tutorial program (003-hs71.cc): the three twice-differentiable
\* functions F, G0, G1 and the straight-line main that assembles the problem,
\* dispatches it to the "ipopt" backend and switches over the result.
EXTENDS Integers, Sequences, FiniteSets, TLC

VARIABLES
  pc,             \* position of main
  i,              \* loop counter of the argument-bounds loop
  argumentBounds, \* pb.argumentBounds ()
  start,          \* local vector start
  startingPoint,  \* pb.startingPoint () (<<>> while unset)
  constraints,    \* constraints of pb, in insertion order
  bounds,         \* local F::intervals_t bounds
  scales,         \* local scales_t scales
  solver,         \* the solver built by the factory (problem it was given)
  res,            \* solver_t::result_t res
  minimumCalls,   \* number of calls of solver.minimum ()
  out,            \* what was written to std::cout
  exit,           \* how main ended
  ev              \* last evaluation of impl_compute / impl_gradient / impl_hessian

mainVars == <<pc, i, argumentBounds, start, startingPoint, constraints,
              bounds, scales, solver, res, minimumCalls, out, exit>>
vars == <<pc, i, argumentBounds, start, startingPoint, constraints,
          bounds, scales, solver, res, minimumCalls, out, exit, ev>>

-----------------------------------------------------------------------------
\* Bounds of the model.

\* Components of an evaluation point range over -MaxVal..MaxVal.
MaxVal == 2
\* Output indices passed to gradient / hessian range over 0..MaxIndex.
MaxIndex == 1
\* A ResultWithWarnings carries 1..MaxWarnings warnings.
MaxWarnings == 2

-----------------------------------------------------------------------------
\* The functions.

inputSize == 4
outputSize == 1

Functions == {"F", "G0", "G1"}
Vals == (0 - MaxVal)..MaxVal
Points == [1..inputSize -> Vals]
Indices == 0..MaxIndex

\* x[k] of the source is x[k + 1] here (sequences start at 1).
F_impl_compute(x) ==
  <<x[1] * x[4] * (x[1] + x[2] + x[3]) + x[3]>>

F_impl_gradient_bad(x, id) ==
  <<x[1] * x[4] + x[4] * (x[1] + x[2] + x[3]),
    x[1] * x[4],
    x[1] * x[4],
    x[1] * (x[1] + x[2] + x[3])>>

F_impl_gradient(x, id) ==
  <<x[1] * x[4] + x[4] * (x[1] + x[2] + x[3]),
    x[1] * x[4],
    x[1] * x[4] + 1,
    x[1] * (x[1] + x[2] + x[3])>>

F_impl_hessian(x, id) ==
  << <<2 * x[4],               x[4], x[4], 2 * x[1] + x[2] + x[3]>>,
     <<x[4],                   0,    0,    x[1]>>,
     <<x[4],                   0,    0,    x[2]>>,
     <<2 * x[1] + x[2] + x[3], x[1], x[1], 0>> >>

G0_impl_compute(x) ==
  <<x[1] * x[2] * x[3] * x[4]>>

G0_impl_gradient(x, id) ==
  <<x[2] * x[3] * x[4],
    x[1] * x[3] * x[4],
    x[1] * x[2] * x[4],
    x[1] * x[2] * x[3]>>

G0_impl_hessian(x, id) ==
  << <<0,           x[3] * x[4], x[2] * x[4], x[2] * x[3]>>,
     <<x[3] * x[4], 0,           x[1] * x[4], x[1] * x[3]>>,
     <<x[2] * x[4], x[1] * x[4], 0,           x[1] * x[2]>>,
     <<x[2] * x[3], x[1] * x[3], x[1] * x[2], 0>> >>

G1_impl_compute(x) ==
  <<x[1] * x[1] + x[2] * x[2] + x[3] * x[3] + x[4] * x[4]>>

G1_impl_gradient(x, id) ==
  [k \in 1..inputSize |-> 2 * x[k]]

G1_impl_hessian(x, id) ==
  << <<2, 0, 0, 0>>,
     <<0, 2, 0, 0>>,
     <<0, 0, 2, 0>>,
     <<0, 0, 0, 2>> >>

\* Virtual dispatch on the dynamic type of the function.
impl_compute(fn, x) ==
  CASE fn = "F"  -> F_impl_compute(x)
    [] fn = "G0" -> G0_impl_compute(x)
    [] fn = "G1" -> G1_impl_compute(x)

impl_gradient(fn, x, id) ==
  CASE fn = "F"  -> F_impl_gradient(x, id)
    [] fn = "G0" -> G0_impl_gradient(x, id)
    [] fn = "G1" -> G1_impl_gradient(x, id)

impl_hessian(fn, x, id) ==
  CASE fn = "F"  -> F_impl_hessian(x, id)
    [] fn = "G0" -> G0_impl_hessian(x, id)
    [] fn = "G1" -> G1_impl_hessian(x, id)

NoEval == [kind |-> "none", fn |-> "F", x |-> <<>>, id |-> 0,
           raised |-> "none", val |-> <<>>]

\* The arguments of an evaluation: the function, the point and the output index.
EvalInputs ==
  {[kind |-> "none", fn |-> fn, x |-> x, id |-> id, raised |-> "none", val |-> <<>>] :
     fn \in Functions, x \in Points, id \in Indices}

\* The three evaluation entry points are declared throw (): they raise nothing.
EvalCompute ==
  /\ ev.x \in Points
  /\ ev' = [ev EXCEPT !.kind = "compute", !.raised = "none",
                      !.val = impl_compute(ev.fn, ev.x)]
  /\ UNCHANGED mainVars

EvalGradient ==
  /\ ev.x \in Points
  /\ ev' = [ev EXCEPT !.kind = "gradient", !.raised = "none",
                      !.val = impl_gradient(ev.fn, ev.x, ev.id)]
  /\ UNCHANGED mainVars

EvalHessian ==
  /\ ev.x \in Points
  /\ ev' = [ev EXCEPT !.kind = "hessian", !.raised = "none",
                      !.val = impl_hessian(ev.fn, ev.x, ev.id)]
  /\ UNCHANGED mainVars

-----------------------------------------------------------------------------
\* Intervals (Function::interval_t): a pair of extended reals.

Num(v) == [inf |-> 0, v |-> v]
PosInf == [inf |-> 1, v |-> 0]
NegInf == [inf |-> 0 - 1, v |-> 0]

makeInterval(l, u) == <<Num(l), Num(u)>>
makeLowerInterval(l) == <<Num(l), PosInf>>
makeInfiniteInterval == <<NegInf, PosInf>>

\* a <= b on extended reals
LeqExt(a, b) ==
  \/ a.inf < b.inf
  \/ a.inf = 0 /\ b.inf = 0 /\ a.v <= b.v
  \/ a.inf = b.inf /\ a.inf # 0

InInterval(v, iv) == LeqExt(iv[1], Num(v)) /\ LeqExt(Num(v), iv[2])

push_back(s, e) == Append(s, e)

clear_noop(s) == s

clear(s) == <<>>

-----------------------------------------------------------------------------
\* main

\* Values an uninitialised coefficient of the vector start may hold.
Garbage == {0, 9}

StartValues == <<1, 5, 5, 1>>

NoSolver == [created |-> FALSE, name |-> "", argumentBounds |-> <<>>,
             startingPoint |-> <<>>, constraints |-> <<>>]
NoResult == [held |-> "none", x |-> <<>>, value |-> 0, warnings |-> 0]
Running == [kind |-> "running", code |-> 0, fault |-> "none"]

\* State after "F f; solver_t::problem_t pb (f);": one unbounded interval
\* per variable, no starting point, no constraint.
InitMain ==
  /\ pc = "bounds_loop"
  /\ i = 0
  /\ argumentBounds = [k \in 1..inputSize |-> makeInfiniteInterval]
  /\ start = <<>>
  /\ startingPoint = <<>>
  /\ constraints = <<>>
  /\ bounds = <<>>
  /\ scales = <<>>
  /\ solver = NoSolver
  /\ res = NoResult
  /\ minimumCalls = 0
  /\ out = <<>>
  /\ exit = Running

Init == InitMain /\ ev = NoEval

BoundsLoopCond_short(k) == k < inputSize - 1

BoundsLoopCond(k) == k < inputSize

\* for (i = 0; i < inputSize; ++i) pb.argumentBounds ()[i] = makeInterval (1., 5.);
BoundsLoop ==
  /\ pc = "bounds_loop"
  /\ IF BoundsLoopCond(i)
       THEN /\ argumentBounds' = [argumentBounds EXCEPT ![i + 1] = makeInterval(1, 5)]
            /\ i' = i + 1
            /\ pc' = pc
       ELSE /\ pc' = "decl_start"
            /\ UNCHANGED <<argumentBounds, i>>
  /\ UNCHANGED <<start, startingPoint, constraints, bounds, scales, solver,
                 res, minimumCalls, out, exit, ev>>

\* Function::vector_t start (inputSize): the coefficients are not initialised.
DeclareStart ==
  /\ pc = "decl_start"
  /\ \E g \in [1..inputSize -> Garbage] : start' = g
  /\ pc' = "start_0"
  /\ UNCHANGED <<i, argumentBounds, startingPoint, constraints, bounds, scales,
                 solver, res, minimumCalls, out, exit, ev>>

StartPc(k) == CASE k = 0 -> "start_0" [] k = 1 -> "start_1"
                [] k = 2 -> "start_2" [] k = 3 -> "start_3"
                [] OTHER -> "set_starting_point"

\* start[0] = 1, start[1] = 5., start[2] = 5, start[3] = 1;
AssignStart ==
  \E k \in 0..(inputSize - 1) :
    /\ pc = StartPc(k)
    /\ start' = [start EXCEPT ![k + 1] = StartValues[k + 1]]
    /\ pc' = StartPc(k + 1)
    /\ UNCHANGED <<i, argumentBounds, startingPoint, constraints, bounds, scales,
                   solver, res, minimumCalls, out, exit, ev>>

\* pb.startingPoint () = start;
SetStartingPoint ==
  /\ pc = "set_starting_point"
  /\ startingPoint' = start
  /\ pc' = "push_bounds_g0"
  /\ UNCHANGED <<i, argumentBounds, start, constraints, bounds, scales,
                 solver, res, minimumCalls, out, exit, ev>>

\* bounds.push_back (makeLowerInterval (25.)) / bounds.push_back (makeInterval (40., 40.))
PushBounds ==
  /\ pc \in {"push_bounds_g0", "push_bounds_g1"}
  /\ bounds' = push_back(bounds, IF pc = "push_bounds_g0"
                                   THEN makeLowerInterval(25)
                                   ELSE makeInterval(40, 40))
  /\ pc' = IF pc = "push_bounds_g0" THEN "push_scales_g0" ELSE "push_scales_g1"
  /\ UNCHANGED <<i, argumentBounds, start, startingPoint, constraints, scales,
                 solver, res, minimumCalls, out, exit, ev>>

\* scales.push_back (1.);
PushScales ==
  /\ pc \in {"push_scales_g0", "push_scales_g1"}
  /\ scales' = push_back(scales, 1)
  /\ pc' = IF pc = "push_scales_g0" THEN "add_g0" ELSE "add_g1"
  /\ UNCHANGED <<i, argumentBounds, start, startingPoint, constraints, bounds,
                 solver, res, minimumCalls, out, exit, ev>>

\* pb.addConstraint (g, bounds, scales): appends the constraint with copies
\* of the two sequences.
AddConstraint ==
  /\ pc \in {"add_g0", "add_g1"}
  /\ constraints' = Append(constraints,
                           [function |-> IF pc = "add_g0" THEN "G0" ELSE "G1",
                            bounds |-> bounds, scales |-> scales])
  /\ pc' = IF pc = "add_g0" THEN "clear_bounds" ELSE "factory"
  /\ UNCHANGED <<i, argumentBounds, start, startingPoint, bounds, scales,
                 solver, res, minimumCalls, out, exit, ev>>

\* bounds.clear ();
ClearBounds ==
  /\ pc = "clear_bounds"
  /\ bounds' = clear(bounds)
  /\ pc' = "clear_scales"
  /\ UNCHANGED <<i, argumentBounds, start, startingPoint, constraints, scales,
                 solver, res, minimumCalls, out, exit, ev>>

ClearScales_skipped ==
  /\ pc = "clear_scales"
  /\ pc' = "push_bounds_g1"
  /\ UNCHANGED <<i, argumentBounds, start, startingPoint, constraints, bounds,
                 scales, solver, res, minimumCalls, out, exit, ev>>

\* scales.clear ();
ClearScales ==
  /\ pc = "clear_scales"
  /\ scales' = clear(scales)
  /\ pc' = "push_bounds_g1"
  /\ UNCHANGED <<i, argumentBounds, start, startingPoint, constraints, bounds,
                 solver, res, minimumCalls, out, exit, ev>>

ConstructFactory_early ==
  /\ pc = "clear_bounds"
  /\ ~solver.created
  /\ solver' = [created |-> TRUE, name |-> "ipopt",
                argumentBounds |-> argumentBounds,
                startingPoint |-> startingPoint,
                constraints |-> constraints]
  /\ pc' = pc
  /\ UNCHANGED <<i, argumentBounds, start, startingPoint, constraints, bounds,
                 scales, res, minimumCalls, out, exit, ev>>

\* Lines 160-161: SolverFactory<solver_t> factory ("ipopt", pb); the solver is
\* bound to the problem as it is at this point.
ConstructFactory ==
  /\ pc = "factory"
  /\ solver' = [created |-> TRUE, name |-> "ipopt",
                argumentBounds |-> argumentBounds,
                startingPoint |-> startingPoint,
                constraints |-> constraints]
  /\ pc' = "minimum"
  /\ UNCHANGED <<i, argumentBounds, start, startingPoint, constraints, bounds,
                 scales, res, minimumCalls, out, exit, ev>>

\* The corners of the box of argument bounds the solver was given.
CornerPoints(ab) ==
  {p \in [1..inputSize -> UNION {{ab[k][1].v, ab[k][2].v} : k \in 1..inputSize}] :
     \A k \in 1..inputSize : p[k] \in {ab[k][1].v, ab[k][2].v}}

\* The alternatives of solver_t::result_t a backend may return.
Results(s) ==
  {[held |-> "Result", x |-> p, value |-> F_impl_compute(p)[1], warnings |-> 0] :
     p \in CornerPoints(s.argumentBounds)}
  \cup {[held |-> "ResultWithWarnings", x |-> p, value |-> F_impl_compute(p)[1],
         warnings |-> w] :
          p \in CornerPoints(s.argumentBounds), w \in 1..MaxWarnings}
  \cup {[held |-> "NoSolution", x |-> <<>>, value |-> 0, warnings |-> 0],
        [held |-> "SolverError", x |-> <<>>, value |-> 0, warnings |-> 0]}

\* Line 164: solver_t::result_t res = solver.minimum ();
Minimum ==
  /\ pc = "minimum"
  /\ \E r \in Results(solver) : res' = r
  /\ minimumCalls' = minimumCalls + 1
  /\ pc' = "print_solver"
  /\ UNCHANGED <<i, argumentBounds, start, startingPoint, constraints, bounds,
                 scales, solver, out, exit, ev>>

\* Line 167: std::cout << solver << std::endl;
PrintSolver ==
  /\ pc = "print_solver"
  /\ out' = Append(out, "solver")
  /\ pc' = "switch"
  /\ UNCHANGED <<i, argumentBounds, start, startingPoint, constraints, bounds,
                 scales, solver, res, minimumCalls, exit, ev>>

\* res.which (): the tag of the alternative the variant holds.
which(r) ==
  CASE r.held = "NoSolution"         -> "SOLVER_NO_SOLUTION"
    [] r.held = "Result"             -> "SOLVER_VALUE"
    [] r.held = "ResultWithWarnings" -> "SOLVER_VALUE_WARNINGS"
    [] r.held = "SolverError"        -> "SOLVER_ERROR"

\* boost::get<T> (res) succeeds when res holds a T and throws bad_get otherwise.
boost_get_ok(T, r) == r.held = T

SwitchTarget_no_case(tag) ==
  CASE tag = "SOLVER_VALUE"          -> "case_value"
    [] tag = "SOLVER_VALUE_WARNINGS" -> "case_warnings"
    [] tag = "SOLVER_ERROR"          -> "case_error"
    [] OTHER                         -> "after_switch"

\* The case labels of the switch; a tag without a label leaves the switch.
SwitchTarget(tag) ==
  CASE tag = "SOLVER_VALUE"          -> "case_value"
    [] tag = "SOLVER_VALUE_WARNINGS" -> "case_warnings"
    [] tag \in {"SOLVER_NO_SOLUTION", "SOLVER_ERROR"} -> "case_error"
    [] OTHER                         -> "after_switch"

\* Line 172: switch (res.which ())
Switch ==
  /\ pc = "switch"
  /\ pc' = SwitchTarget(which(res))
  /\ UNCHANGED <<i, argumentBounds, start, startingPoint, constraints, bounds,
                 scales, solver, res, minimumCalls, out, exit, ev>>

BadGet == [kind |-> "abort", code |-> 0, fault |-> "bad_get"]

\* Lines 174-184
CaseValue ==
  /\ pc = "case_value"
  /\ IF boost_get_ok("Result", res)
       THEN /\ out' = Append(out, "A solution has been found: ")
            /\ pc' = "return_0"
            /\ exit' = exit
       ELSE /\ out' = out
            /\ pc' = "done"
            /\ exit' = BadGet
  /\ UNCHANGED <<i, argumentBounds, start, startingPoint, constraints, bounds,
                 scales, solver, res, minimumCalls, ev>>

\* Lines 186-196
CaseWarnings ==
  /\ pc = "case_warnings"
  /\ IF boost_get_ok("ResultWithWarnings", res)
       THEN /\ out' = Append(out, "A solution has been found: ")
            /\ pc' = "return_0"
            /\ exit' = exit
       ELSE /\ out' = out
            /\ pc' = "done"
            /\ exit' = BadGet
  /\ UNCHANGED <<i, argumentBounds, start, startingPoint, constraints, bounds,
                 scales, solver, res, minimumCalls, ev>>

\* Lines 198-207. The get is an operand of the output expression: when it
\* throws, the text before it has been written or not, depending on the order
\* in which the build evaluates the operands.
CaseError ==
  /\ pc = "case_error"
  /\ IF boost_get_ok("SolverError", res)
       THEN /\ out' = out \o <<"A solution should have been found. Failing...",
                               "what">>
            /\ pc' = "return_2"
            /\ exit' = exit
       ELSE /\ \/ out' = out
               \/ out' = Append(out, "A solution should have been found. Failing...")
            /\ pc' = "done"
            /\ exit' = BadGet
  /\ UNCHANGED <<i, argumentBounds, start, startingPoint, constraints, bounds,
                 scales, solver, res, minimumCalls, ev>>

\* return 0; / return 2; / assert (0); return 42;
Return ==
  /\ pc \in {"return_0", "return_2", "after_switch"}
  /\ \/ /\ pc = "return_0"
        /\ exit' = [kind |-> "return", code |-> 0, fault |-> "none"]
     \/ /\ pc = "return_2"
        /\ exit' = [kind |-> "return", code |-> 2, fault |-> "none"]
     \/ /\ pc = "after_switch"
        /\ exit' \in {[kind |-> "abort", code |-> 0, fault |-> "assert"],
                      [kind |-> "return", code |-> 42, fault |-> "none"]}
  /\ pc' = "done"
  /\ UNCHANGED <<i, argumentBounds, start, startingPoint, constraints, bounds,
                 scales, solver, res, minimumCalls, out, ev>>

Next ==
  \/ BoundsLoop
  \/ DeclareStart
  \/ AssignStart
  \/ SetStartingPoint
  \/ PushBounds
  \/ PushScales
  \/ AddConstraint
  \/ ClearBounds
  \/ ClearScales
  \/ ConstructFactory
  \/ Minimum
  \/ PrintSolver
  \/ Switch
  \/ CaseValue
  \/ CaseWarnings
  \/ CaseError
  \/ Return

Spec == Init /\ [][Next]_vars

\* Evaluations of the three functions at points drawn from Points.
NextFn ==
  \/ EvalCompute
  \/ EvalGradient
  \/ EvalHessian

InitFn == InitMain /\ ev \in EvalInputs

SpecFn == InitFn /\ [][NextFn]_vars

-----------------------------------------------------------------------------
\* Properties of the functions (checked under SpecFn).

\* x + d * e_k : the point x moved by d along coordinate k
Shift(x, k, d) == [x EXCEPT ![k] = x[k] + d]

Coords == 1..inputSize

\* C1: for F, G0 and G1 and every x, the matrix written by impl_hessian is
\* symmetric: H[a][b] = H[b][a] for all a, b.
C1_HessianSymmetric ==
  ev.kind = "hessian" =>
    \A a \in Coords, b \in Coords : ev.val[a][b] = ev.val[b][a]

\* C3: for F, G0 and G1 and every x, every entry H[a][b] written by
\* impl_hessian equals the forward difference gradient(x + e_b)[a] - gradient(x)[a].
C3_HessianMatchesGradient ==
  ev.kind = "hessian" =>
    \A a \in Coords, b \in Coords :
      ev.val[a][b] = impl_gradient(ev.fn, Shift(ev.x, b, 1), ev.id)[a]
                     - impl_gradient(ev.fn, ev.x, ev.id)[a]

\* C4: for F, G0 and G1 and every x, twice the gradient written by
\* impl_gradient equals the central difference of impl_compute:
\* 2 * gradient(x)[k] = compute(x + e_k) - compute(x - e_k) for every k.
C4_GradientMatchesCompute ==
  ev.kind = "gradient" =>
    \A k \in Coords :
      2 * ev.val[k] = impl_compute(ev.fn, Shift(ev.x, k, 1))[1]
                      - impl_compute(ev.fn, Shift(ev.x, k, 0 - 1))[1]

\* A gradient of F was evaluated at a point with x0 # x1 and a non-zero x3.
C4_Witness ==
  /\ ev.kind = "gradient"
  /\ ev.fn = "F"
  /\ ev.x = <<1, 2, 0 - 1, 2>>
  /\ ev.val = <<6, 2, 3, 2>>

\* C7: a gradient or Hessian evaluation with an output index outside
\* 0..outputSize-1 fails with IndexOutOfRange and never yields the value that
\* index 0 yields.
C7_IndexOutOfRange ==
  (ev.kind \in {"gradient", "hessian"} /\ ev.id \notin 0..(outputSize - 1)) =>
    /\ ev.raised = "IndexOutOfRange"
    /\ ev.val # (IF ev.kind = "gradient" THEN impl_gradient(ev.fn, ev.x, 0)
                                         ELSE impl_hessian(ev.fn, ev.x, 0))

-----------------------------------------------------------------------------
\* Properties of main (checked under Spec).

AfterAssembly ==
  pc \in {"factory", "minimum", "print_solver", "switch", "case_value",
          "case_warnings", "case_error", "return_0", "return_2",
          "after_switch", "done"}

AfterMinimum ==
  pc \in {"print_solver", "switch", "case_value", "case_warnings", "case_error",
          "return_0", "return_2", "after_switch", "done"}

\* C2: when minimum () returns the NoSolution alternative, main ends like it
\* does for the Error alternative: no fault is raised, the failure message is
\* written and main returns 2.
C2_NoSolutionReturns2 ==
  (pc = "done" /\ which(res) = "SOLVER_NO_SOLUTION") =>
    /\ exit = [kind |-> "return", code |-> 2, fault |-> "none"]
    /\ \E n \in 1..Len(out) :
         out[n] = "A solution should have been found. Failing..."

\* C5: when main dispatches the problem, argumentBounds has inputSize entries,
\* each the interval [1, 5], and startingPoint is (1, 5, 5, 1), every entry
\* inside the bound of its variable; the solver is handed exactly that.
C5_BoundsAndStartAtDispatch ==
  /\ pc = "factory" =>
       /\ Len(argumentBounds) = inputSize
       /\ \A k \in 1..inputSize :
            argumentBounds[k] = <<[inf |-> 0, v |-> 1], [inf |-> 0, v |-> 5]>>
       /\ Len(startingPoint) = inputSize
       /\ startingPoint = <<1, 5, 5, 1>>
       /\ \A k \in 1..inputSize : InInterval(startingPoint[k], argumentBounds[k])
  /\ solver.created =>
       /\ Len(solver.argumentBounds) = inputSize
       /\ \A k \in 1..inputSize :
            solver.argumentBounds[k] = <<[inf |-> 0, v |-> 1], [inf |-> 0, v |-> 5]>>
       /\ solver.startingPoint = <<1, 5, 5, 1>>

\* The solver has been built from the problem.
C5_Witness ==
  /\ pc = "minimum"
  /\ solver.created
  /\ Len(solver.argumentBounds) = 4
  /\ solver.startingPoint[2] = 5

\* C6: after the two addConstraint calls the constraints are [G0, G1] in that
\* order, G0 with the single bound [25, +inf) and scale 1, G1 with the single
\* bound [40, 40] and scale 1; while only one was added it is G0.
C6_ConstraintsInOrder ==
  /\ AfterAssembly =>
       constraints =
         << [function |-> "G0",
             bounds |-> << <<[inf |-> 0, v |-> 25], [inf |-> 1, v |-> 0]>> >>,
             scales |-> <<1>>],
            [function |-> "G1",
             bounds |-> << <<[inf |-> 0, v |-> 40], [inf |-> 0, v |-> 40]>> >>,
             scales |-> <<1>>] >>
  /\ Len(constraints) >= 1 => constraints[1].function = "G0"

\* Both constraints have been added.
C6_Witness ==
  /\ pc = "factory"
  /\ Len(constraints) = 2
  /\ constraints[2].function = "G1"

\* C8 as stated: bounds and scales have the same length in every state of the
\* assembly, and length 1 at every addConstraint call.
C8_LengthsAlwaysEqual ==
  /\ Len(bounds) = Len(scales)
  /\ pc \in {"add_g0", "add_g1"} => Len(bounds) = outputSize

\* C8 as amended: at every addConstraint call bounds and scales hold exactly
\* the one bound and the one scale of the constraint being added; between the
\* two push_back statements bounds is one longer than scales, between the two
\* clear statements it is one shorter, and in every other state the lengths
\* are equal.
C8_LengthsAtAddConstraint ==
  /\ pc = "add_g0" =>
       /\ bounds = << <<[inf |-> 0, v |-> 25], [inf |-> 1, v |-> 0]>> >>
       /\ scales = <<1>>
  /\ pc = "add_g1" =>
       /\ bounds = << <<[inf |-> 0, v |-> 40], [inf |-> 0, v |-> 40]>> >>
       /\ scales = <<1>>
  /\ pc \in {"add_g0", "add_g1"} =>
       Len(bounds) = outputSize /\ Len(scales) = outputSize
  /\ pc \in {"push_scales_g0", "push_scales_g1"} => Len(bounds) = Len(scales) + 1
  /\ pc = "clear_scales" => Len(bounds) + 1 = Len(scales)
  /\ pc \notin {"push_scales_g0", "push_scales_g1", "clear_scales"} =>
       Len(bounds) = Len(scales)

\* The second addConstraint call is about to be made.
C8_Witness ==
  /\ pc = "add_g1"
  /\ Len(constraints) = 1
  /\ Len(bounds) = 1
  /\ Len(scales) = 1

\* C9: the problem is mutated only before the solver is built from it;
\* minimum () is called once, after the solver is built, and the result it
\* returns is the one the switch inspects, never changed afterwards.
C9_FrozenAfterDispatch ==
  /\ [][solver.created =>
          /\ argumentBounds' = argumentBounds
          /\ startingPoint' = startingPoint
          /\ constraints' = constraints]_vars
  /\ [][res.held # "none" => res' = res]_vars
  /\ [][minimumCalls' # minimumCalls => (solver.created /\ minimumCalls = 0)]_vars
  /\ [](solver.created =>
          /\ solver.argumentBounds = argumentBounds
          /\ solver.startingPoint = startingPoint
          /\ solver.constraints = constraints)
  /\ [](minimumCalls <= 1)
  /\ []((minimumCalls = 1) <=> (res.held # "none"))
  /\ [](AfterMinimum <=> (minimumCalls = 1))

\* The switch is about to inspect the result of the one call of minimum ().
C9_Witness ==
  /\ pc = "switch"
  /\ solver.created
  /\ minimumCalls = 1
  /\ res.held = "ResultWithWarnings"

\* C10: for each of the four tags the switch selects the case of that tag,
\* control never reaches the statements after the switch, and main returns 0
\* exactly when the tag is SOLVER_VALUE or SOLVER_VALUE_WARNINGS.
C10_SwitchExhaustive ==
  /\ pc # "after_switch"
  /\ exit.fault # "assert"
  /\ exit.code # 42
  /\ pc = "case_value" => which(res) = "SOLVER_VALUE"
  /\ pc = "case_warnings" => which(res) = "SOLVER_VALUE_WARNINGS"
  /\ pc = "case_error" => which(res) \in {"SOLVER_NO_SOLUTION", "SOLVER_ERROR"}
  /\ pc = "done" =>
       /\ exit.kind # "running"
       /\ (exit.kind = "return" /\ exit.code = 0)
            <=> which(res) \in {"SOLVER_VALUE", "SOLVER_VALUE_WARNINGS"}

\* The case of the NoSolution tag has been selected.
C10_Witness ==
  /\ pc = "case_error"
  /\ res.held = "NoSolution"

====
